---------------------------- MODULE Spec2Model ----------------------------
(***************************************************************************)
(* A model of embedded-bktree (src/src/lib.rs): the build-time BK tree     *)
(* (write::Node::add, write::write_bktree) and the run-time reader         *)
(* (read::Node::canidates, read::NodeIterator).                            *)
(*                                                                         *)
(* A word is a sequence of characters.  A tree is a function from paths    *)
(* to words: the root is the empty path <<>>, and the node held in slot i  *)
(* of the children array of the node at path p is at path Append(p, i).    *)
(* A slot is occupied (Some) iff its path is in the domain of the tree.    *)
(***************************************************************************)
EXTENDS Integers, Sequences, FiniteSets, TLC

VARIABLES
    input,            \* the word list as the caller passed it to write_bktree
    word_list,        \* the caller's Vec, which write_bktree edits in place
    tree,             \* the tree: path -> word
    pc,               \* "start", "built", "failed" (write_bktree) or "adding"
    report,           \* the diagnostics the program has emitted
    overflow_checks,  \* the build profile: TRUE panics on integer overflow
    query,            \* the arguments of the last canidates call
    result,           \* what the last canidates call returned
    stack,            \* NodeIterator.stack: <<cursor, node>> pairs
    first,            \* NodeIterator.first
    it,               \* "absent", "live" or "panicked"
    last,             \* what the last next() returned: "-", "Some", "None", "panic"
    nones,            \* how many times next() has returned None
    yielded           \* the nodes next() has returned so far, in order

vars == <<input, word_list, tree, pc, report, overflow_checks, query, result,
          stack, first, it, last, nones, yielded>>

---------------------------------------------------------------------------
(* Program constants *)

CHILDREN_LENGTH == 15

the == <<"t", "h", "e">>
ROOT_WORD == the

U8 == 256

---------------------------------------------------------------------------
(* The words of the model *)

them == <<"t", "h", "e", "m">>
he == <<"h", "e">>
she == <<"s", "h", "e">>
shes == <<"s", "h", "e", "s">>
\* fifteen letters, none of them in the other words: 15 edits from "the"
individualizing ==
    <<"i", "n", "d", "i", "v", "i", "d", "u", "a", "l", "i", "z", "i", "n", "g">>

\* fifteen letters each, 14 edits from "the" and 15 edits from one another
taaaaaaaaaaaaaa == [i \in 1 .. 15 |-> IF i = 1 THEN "t" ELSE "a"]
bbbbbbbbbbbbbbe == [i \in 1 .. 15 |-> IF i = 15 THEN "e" ELSE "b"]

\* the words of the lists given to write_bktree, of the queries, and of the
\* single add calls
Words == {the, them, he, she, individualizing}
QueryWords == {the, them, he, she, shes, individualizing}
AddWords == Words \cup {taaaaaaaaaaaaaa, bbbbbbbbbbbbbbe}
AllWords == Words \cup QueryWords \cup AddWords

MaxListLen == 4
MaxTolerance == 2
MaxAdds == 4

Tolerances == (0 .. MaxTolerance) \cup {U8 - 1}

RECURSIVE Lists(_)
Lists(n) ==
    IF n = 0 THEN {<<>>}
    ELSE LET shorter == Lists(n - 1)
         IN shorter \cup {Append(l, w) : l \in {s \in shorter : Len(s) = n - 1}, w \in Words}

---------------------------------------------------------------------------
(* levenshtein::levenshtein: the edit distance, one row at a time *)

Min3(a, b, c) == IF a <= b /\ a <= c THEN a ELSE IF b <= c THEN b ELSE c

RECURSIVE lev_row(_, _, _, _)
lev_row(prev, ca, b, acc) ==
    IF Len(acc) = Len(b) + 1 THEN acc
    ELSE LET j == Len(acc)
             cost == IF ca = b[j] THEN 0 ELSE 1
         IN lev_row(prev, ca, b,
                    Append(acc, Min3(prev[j + 1] + 1, acc[j] + 1, prev[j] + cost)))

RECURSIVE lev_rows(_, _, _)
lev_rows(a, b, row) ==
    IF a = <<>> THEN row
    ELSE lev_rows(Tail(a), b, lev_row(row, Head(a), b, <<row[1] + 1>>))

lev(a, b) == lev_rows(a, b, [j \in 1 .. Len(b) + 1 |-> j - 1])[Len(b) + 1]

\* the distances between the words of the model, computed once
lev_table == [a \in AllWords |-> [b \in AllWords |-> lev(a, b)]]

levenshtein(a, b) == lev_table[a][b]

---------------------------------------------------------------------------
(* write::Node *)

\* Node::new(word): a node with fifteen empty slots
new(word) == (<<>> :> word)

\* self.children[i] is Some
occupied(t, self, i) == Append(self, i) \in DOMAIN t

\* Node::add, called on the node at path self of tree t; returns the tree
RECURSIVE add(_, _, _)

\* add with the capacity guard off by one: diff <= CHILDREN_LENGTH
add_off_by_one(t, self, word) ==
    LET diff == levenshtein(t[self], word)
    IN IF diff <= CHILDREN_LENGTH
       THEN IF occupied(t, self, diff)
            THEN add(t, Append(self, diff), word)
            ELSE t @@ (Append(self, diff) :> word)
       ELSE t

\* add that puts the new node in slot diff whether or not the slot is taken
add_overwrite(t, self, word) ==
    LET diff == levenshtein(t[self], word)
    IN IF diff < CHILDREN_LENGTH
       THEN IF occupied(t, self, diff)
            THEN [t EXCEPT ![Append(self, diff)] = word]
            ELSE t @@ (Append(self, diff) :> word)
       ELSE t

add(t, self, word) ==
    LET diff == levenshtein(t[self], word)
    IN IF diff < CHILDREN_LENGTH
       THEN IF occupied(t, self, diff)
            THEN add(t, Append(self, diff), word)
            ELSE t @@ (Append(self, diff) :> word)
       ELSE t

\* word_list.iter().position(|x| *x == ROOT_WORD): 0 stands for None
position(l, w) ==
    IF \E i \in 1 .. Len(l) : l[i] = w
    THEN CHOOSE i \in 1 .. Len(l) : l[i] = w /\ \A k \in 1 .. i - 1 : l[k] /= w
    ELSE 0

\* Vec::remove(index)
remove(l, index) == [k \in 1 .. Len(l) - 1 |-> IF k < index THEN l[k] ELSE l[k + 1]]

\* Vec::dedup(): drops every element equal to the one right before it
RECURSIVE dedup(_)
dedup(l) ==
    IF Len(l) <= 1 THEN l
    ELSE LET front == dedup(SubSeq(l, 1, Len(l) - 1))
         IN IF l[Len(l)] = l[Len(l) - 1] THEN front ELSE Append(front, l[Len(l)])

\* word_list.iter().for_each(|w| tree.add(w))
RECURSIVE for_each_add(_, _)
for_each_add(t, l) ==
    IF l = <<>> THEN t ELSE for_each_add(add(t, <<>>, Head(l)), Tail(l))

not_found == <<"the was not found in word_list">>

\* write_bktree up to the point where the tree is rendered: the outcome for the
\* list l.  The rendering (as_string) and the file are outside the model; the
\* reader's static TREE is the tree built here.
write_bktree(l) ==
    LET index == position(l, ROOT_WORD)
    IN IF index = 0
       THEN [pc |-> "failed", word_list |-> l, tree |-> <<>>, report |-> not_found]
       ELSE LET rest == dedup(remove(l, index))
            IN [pc |-> "built", word_list |-> rest,
                tree |-> for_each_add(new(ROOT_WORD), rest), report |-> <<>>]

---------------------------------------------------------------------------
(* read::Node *)

Panic == [panic |-> TRUE, words |-> <<>>]

\* line 128: (min, max) = (distance - tolerance, distance + tolerance) in u8.
\* With overflow checks (oc) a difference below 0 or a sum above 255 panics;
\* without them it wraps modulo 256.
window(distance, tolerance, oc) ==
    LET lo == distance - tolerance
        hi == distance + tolerance
    IN IF oc /\ (lo < 0 \/ hi >= U8)
       THEN [panic |-> TRUE, min |-> 0, max |-> 0]
       ELSE [panic |-> FALSE, min |-> (lo + U8) % U8, max |-> hi % U8]

\* the filter of lines 129-133 and the loop body of lines 135-138, from slot i on
RECURSIVE canidates(_, _, _, _, _)
RECURSIVE visit(_, _, _, _, _, _, _, _)

\* visit with the lower bound of the filter strict: i > min
RECURSIVE visit_strict(_, _, _, _, _, _, _, _)
visit_strict(t, self, word, tolerance, oc, min, max, i) ==
    IF i = CHILDREN_LENGTH THEN [panic |-> FALSE, words |-> <<>>]
    ELSE IF i > min /\ i <= max /\ occupied(t, self, i)
         THEN LET node == Append(self, i)
                  sub == canidates(t, node, word, tolerance, oc)
                  rest == visit_strict(t, self, word, tolerance, oc, min, max, i + 1)
              IN IF sub.panic \/ rest.panic THEN Panic
                 ELSE [panic |-> FALSE, words |-> <<t[node]>> \o sub.words \o rest.words]
         ELSE visit_strict(t, self, word, tolerance, oc, min, max, i + 1)

visit(t, self, word, tolerance, oc, min, max, i) ==
    IF i = CHILDREN_LENGTH THEN [panic |-> FALSE, words |-> <<>>]
    ELSE IF i >= min /\ i <= max /\ occupied(t, self, i)
         THEN LET node == Append(self, i)
                  sub == canidates(t, node, word, tolerance, oc)
                  rest == visit(t, self, word, tolerance, oc, min, max, i + 1)
              IN IF sub.panic \/ rest.panic THEN Panic
                 ELSE [panic |-> FALSE, words |-> <<t[node]>> \o sub.words \o rest.words]
         ELSE visit(t, self, word, tolerance, oc, min, max, i + 1)

\* Node::canidates on the node at path self
canidates(t, self, word, tolerance, oc) ==
    LET distance == levenshtein(t[self], word) % U8
        w == window(distance, tolerance, oc)
    IN IF w.panic THEN Panic
       ELSE visit(t, self, word, tolerance, oc, w.min, w.max, 0)

---------------------------------------------------------------------------
(* read::NodeIterator *)

\* the occupied slots without .rev(): first slot first
children_fwd(t, node) ==
    SelectSeq([k \in 1 .. CHILDREN_LENGTH |-> k - 1], LAMBDA i : occupied(t, node, i))

\* node.children.iter().rev().filter(|n| n.is_some()): the occupied slots, last first
children_rev(t, node) ==
    SelectSeq([k \in 1 .. CHILDREN_LENGTH |-> CHILDREN_LENGTH - k],
              LAMBDA i : occupied(t, node, i))

\* skip that drops one element too many
skip_one_more(s, n) == SubSeq(s, n + 2, Len(s))

\* Iterator::skip(n)
skip(s, n) == SubSeq(s, n + 1, Len(s))

\* Vec::pop
pop(s) == SubSeq(s, 1, Len(s) - 1)

\* the loop of lines 162-188
RECURSIVE next_loop(_, _)
next_loop(t, stk) ==
    IF stk = <<>> THEN [stack |-> stk, ret |-> "panic", node |-> <<>>]
    ELSE LET top == stk[Len(stk)]
             rest == skip(children_rev(t, top[2]), top[1])
         IN IF rest /= <<>>
            THEN LET node == Append(top[2], rest[1])
                 IN [stack |-> Append(stk, <<0, node>>), ret |-> "Some", node |-> node]
            ELSE LET popped == pop(stk)
                 IN IF popped = <<>>
                    THEN [stack |-> popped, ret |-> "None", node |-> <<>>]
                    ELSE LET l == popped[Len(popped)]
                         IN next_loop(t, Append(pop(popped), <<l[1] + 1, l[2]>>))

\* NodeIterator::next
next(t, stk, fst) ==
    IF fst
    THEN IF stk = <<>> THEN [stack |-> stk, ret |-> "panic", node |-> <<>>]
         ELSE [stack |-> stk, ret |-> "Some", node |-> stk[1][2]]
    ELSE next_loop(t, stk)

---------------------------------------------------------------------------
(* The operations *)

NoResult == [panic |-> FALSE, words |-> <<>>]

Init ==
    /\ input \in Lists(MaxListLen)
    /\ word_list = input
    /\ tree = <<>>
    /\ pc = "start"
    /\ report = <<>>
    /\ overflow_checks \in BOOLEAN
    /\ query = <<>>
    /\ result = NoResult
    /\ stack = <<>>
    /\ first = FALSE
    /\ it = "absent"
    /\ last = "-"
    /\ nones = 0
    /\ yielded = <<>>

\* write_bktree(file_path, word_list)
WriteBktree ==
    /\ pc = "start"
    /\ LET out == write_bktree(word_list)
       IN /\ pc' = out.pc
          /\ word_list' = out.word_list
          /\ tree' = out.tree
          /\ report' = out.report
    /\ UNCHANGED <<input, overflow_checks, query, result, stack, first, it, last,
                   nones, yielded>>

\* TREE.canidates(word, tolerance)
\* The tree is immutable, so the calls are independent of one another: one call
\* per behaviour covers them all.
Canidates(word, tolerance) ==
    /\ pc = "built"
    /\ query = <<>>
    /\ query' = <<word, tolerance>>
    /\ result' = canidates(tree, <<>>, word, tolerance, overflow_checks)
    /\ UNCHANGED <<input, word_list, tree, pc, report, overflow_checks, stack, first,
                   it, last, nones, yielded>>

\* TREE.iter(): NodeIterator::new
Iter ==
    /\ pc = "built"
    /\ it = "absent"
    /\ stack' = <<<<0, <<>>>>>>
    /\ first' = TRUE
    /\ it' = "live"
    /\ UNCHANGED <<input, word_list, tree, pc, report, overflow_checks, query, result,
                   last, nones, yielded>>

\* one call of next() on the iterator
IterNext ==
    /\ it = "live"
    /\ LET out == next(tree, stack, first)
       IN /\ stack' = out.stack
          /\ first' = FALSE
          /\ last' = out.ret
          /\ it' = IF out.ret = "panic" THEN "panicked" ELSE "live"
          /\ nones' = IF out.ret = "None" THEN nones + 1 ELSE nones
          /\ yielded' = IF out.ret = "Some" THEN Append(yielded, out.node) ELSE yielded
    /\ UNCHANGED <<input, word_list, tree, pc, report, overflow_checks, query, result>>

\* tree.add(word) on a tree that starts as a single root node
InitAdd ==
    /\ input = <<>>
    /\ word_list = <<>>
    /\ tree = new(ROOT_WORD)
    /\ pc = "adding"
    /\ report = <<>>
    /\ overflow_checks \in BOOLEAN
    /\ query = <<>>
    /\ result = NoResult
    /\ stack = <<>>
    /\ first = FALSE
    /\ it = "absent"
    /\ last = "-"
    /\ nones = 0
    /\ yielded = <<>>

Add(word) ==
    /\ pc = "adding"
    /\ Len(word_list) < MaxAdds
    /\ tree' = add(tree, <<>>, word)
    /\ word_list' = Append(word_list, word)
    /\ UNCHANGED <<input, pc, report, overflow_checks, query, result, stack, first, it,
                   last, nones, yielded>>

Next ==
    \/ WriteBktree
    \/ \E word \in QueryWords, tolerance \in Tolerances : Canidates(word, tolerance)

Spec == Init /\ [][Next]_vars

NextIter ==
    \/ WriteBktree
    \/ Iter
    \/ IterNext

SpecIter == Init /\ [][NextIter]_vars

NextAdd == \E word \in AddWords : Add(word)

SpecAdd == InitAdd /\ [][NextAdd]_vars

---------------------------------------------------------------------------
(* Vocabulary of the properties *)

Root == <<>>
Range(s) == {s[i] : i \in 1 .. Len(s)}
Max2(a, b) == IF a >= b THEN a ELSE b
Min2(a, b) == IF a <= b THEN a ELSE b
Count(l, w) == Cardinality({i \in 1 .. Len(l) : l[i] = w})

\* p is a proper ancestor of q
IsAncestor(p, q) == Len(p) < Len(q) /\ SubSeq(q, 1, Len(p)) = p

\* the first position where the paths p and q differ (neither is an ancestor of the other)
Fork(p, q) == CHOOSE i \in 1 .. Min2(Len(p), Len(q)) :
                  p[i] /= q[i] /\ \A k \in 1 .. i - 1 : p[k] = q[k]

\* add(t, self, word) comes to a node whose distance to word is >= CHILDREN_LENGTH
RECURSIVE overflows(_, _, _)
overflows(t, self, word) ==
    LET diff == levenshtein(t[self], word)
    IN IF diff < CHILDREN_LENGTH
       THEN occupied(t, self, diff) /\ overflows(t, Append(self, diff), word)
       ELSE TRUE

\* the list with all but the first occurrence of each word removed
RECURSIVE first_occurrences(_)
first_occurrences(l) ==
    IF l = <<>> THEN l
    ELSE LET front == first_occurrences(SubSeq(l, 1, Len(l) - 1))
         IN IF l[Len(l)] \in Range(front) THEN front ELSE Append(front, l[Len(l)])

\* every occupied slot holds a node at exactly that distance, within the array
SlotsAreDistances(t) ==
    \A p \in DOMAIN t \ {Root} :
        LET parent == SubSeq(p, 1, Len(p) - 1)
            i == p[Len(p)]
        IN /\ parent \in DOMAIN t
           /\ i \in 0 .. CHILDREN_LENGTH - 1
           /\ levenshtein(t[parent], t[p]) = i

\* a canidates call has returned
Queried == pc = "built" /\ query /= <<>>

---------------------------------------------------------------------------
(* C1 *)

\* C1: soundness of candidate search, for the words below the root (where the
\* claim does not turn on whether the root's own word counts as a candidate):
\* whenever canidates(q, t) has been called on the root of a built tree, every
\* word w of a node below the root with distance(q, w) <= t is in the result.
C1_Soundness ==
    Queried =>
        \A p \in DOMAIN tree \ {Root} :
            levenshtein(query[1], tree[p]) <= query[2]
                => ~result.panic /\ tree[p] \in Range(result.words)

---------------------------------------------------------------------------
(* C2 *)

---------------------------------------------------------------------------
(* C3 *)

\* C3: canidates cannot fail: every call completes, and at the root the slots
\* its filter lets through are those from max(0, D - tolerance) to
\* min(CHILDREN_LENGTH - 1, D + tolerance), D = distance(root word, word).
C3_CannotFail ==
    Queried =>
        LET D == levenshtein(tree[Root], query[1])
            w == window(D % U8, query[2], overflow_checks)
        IN /\ ~result.panic
           /\ ~w.panic
           /\ {i \in 0 .. CHILDREN_LENGTH - 1 : i >= w.min /\ i <= w.max}
                = {i \in 0 .. CHILDREN_LENGTH - 1 :
                       i >= Max2(0, D - query[2])
                       /\ i <= Min2(CHILDREN_LENGTH - 1, D + query[2])}

---------------------------------------------------------------------------
(* C4 *)

\* C4: iterator completeness: the first value of a fresh iterator is the root,
\* no node is yielded twice, only nodes of the tree are yielded, next() does
\* not fail before its first None, and at the first None every one of the N
\* nodes has been yielded, so exactly N values.
C4_IteratorComplete ==
    it /= "absent" =>
        /\ Len(yielded) >= 1 => yielded[1] = Root
        /\ \A i, j \in 1 .. Len(yielded) : i /= j => yielded[i] /= yielded[j]
        /\ Range(yielded) \subseteq DOMAIN tree
        /\ it = "panicked" => nones >= 1
        /\ nones >= 1 => /\ Range(yielded) = DOMAIN tree
                         /\ Len(yielded) = Cardinality(DOMAIN tree)

\* an iterator has run to its first None over a tree of at least four nodes,
\* one of them two levels below the root
C4_Witness ==
    /\ last = "None"
    /\ nones = 1
    /\ Cardinality(DOMAIN tree) >= 4
    /\ \E p \in DOMAIN tree : Len(p) = 2

---------------------------------------------------------------------------
(* C5 *)

\* C5: once next() has returned None, every later call of next() on the same
\* iterator returns None as well (and so does not fail).
C5_NoneAfterNone == [][last = "None" => last' = "None"]_vars

---------------------------------------------------------------------------
(* C6 *)

---------------------------------------------------------------------------
(* C7 *)

\* C7: root exclusion: in a tree built by write_bktree no node below the root
\* holds the root word, however often the list held it.
C7_RootExclusion ==
    pc = "built" => \A p \in DOMAIN tree \ {Root} : tree[p] /= ROOT_WORD

---------------------------------------------------------------------------
(* C8 *)

\* C8: dedup, on the lists that hold the root word once (C7 is about the
\* others): write_bktree builds the tree it builds from the list with all but
\* the first occurrence of each word removed, and no two nodes hold the same word.
C8_Dedup ==
    (pc = "built" /\ Count(input, ROOT_WORD) = 1) =>
        /\ tree = write_bktree(first_occurrences(input)).tree
        /\ \A p, q \in DOMAIN tree : p /= q => tree[p] /= tree[q]

---------------------------------------------------------------------------
(* C9 *)

\* a step that calls add(word)
Added(word) == pc = "adding" /\ word_list' = Append(word_list, word)

---------------------------------------------------------------------------
(* C10 *)

\* an add call left the tree as it was, or added one leaf and nothing else
OneLeafOrNothing ==
    \/ tree' = tree
    \/ \E p \in DOMAIN tree' \ DOMAIN tree :
           /\ DOMAIN tree' = DOMAIN tree \cup {p}
           /\ \A q \in DOMAIN tree : tree'[q] = tree[q]
           /\ SubSeq(p, 1, Len(p) - 1) \in DOMAIN tree
           /\ \A q \in DOMAIN tree' : ~IsAncestor(p, q)

\* C10: distance-slot invariant: after any sequence of add calls from a single
\* root node, every occupied slot i of every node holds a node at distance
\* exactly i, i < CHILDREN_LENGTH; and each add leaves the tree unchanged or
\* adds one new leaf, changing no node there was.
C10_DistanceSlot ==
    /\ [](pc = "adding" => SlotsAreDistances(tree))
    /\ [][pc = "adding" => OneLeafOrNothing]_vars

\* after four adds: a node in the last slot of the root, a node two levels
\* down, and a word that found no place
C10_Witness ==
    /\ pc = "adding"
    /\ <<CHILDREN_LENGTH - 1>> \in DOMAIN tree
    /\ \E p \in DOMAIN tree : Len(p) = 2
    /\ Cardinality(DOMAIN tree) < Len(word_list) + 1

=============================================================================
